---- MODULE Spec2Model ----
(***************************************************************************)
(* A model of the trace region of src/src/rt/region/region_trace.h:        *)
(* objects linked into two intrusive rings through their next slot, the    *)
(* region metadata object that anchors both rings, and the operations      *)
(* create, alloc, merge, swap_root, gc (mark, sweep, collect),             *)
(* release_internal and the iterator.                                      *)
(*                                                                         *)
(* Addresses: objects are 1..NestObjs, region metadata objects are the     *)
(* negative numbers -1..-NestRegs, nullptr is 0.  The allocator hands out  *)
(* fresh addresses in increasing order and never reuses a freed one.       *)
(*                                                                         *)
(* Not modelled: the RememberedSet and the ExternalReferenceTable (objects *)
(* of class SCC_PTR, RC and COWN never appear in a field, so mark's count  *)
(* marked stays 0), and arena regions (every region is a trace region).    *)
(* gc runs in steps: mark, sweep, one step for each iso popped from        *)
(* collect, and the return; no other operation runs in between, since a    *)
(* region is used by one thread at a time.  ObjectStack f is empty at      *)
(* every step boundary and is local to the operators that use it.          *)
(*                                                                         *)
(* log and last are history variables: log lists the calls the current gc  *)
(* has made (finalise, find_iso_fields, destructor, dealloc, sweep_set,    *)
(* release_internal); last names the last create, alloc, merge, swap_root, *)
(* gc or release call (a and b: its arguments, for create and alloc the    *)
(* new object), the heap it started from (pre), for a swap_root that       *)
(* undoes the previous one the heap before both (pre2), for a gc that      *)
(* directly follows the clearing of a field the heap before the clearing   *)
(* (pre2), and for a gc whether it directly follows a gc of the same       *)
(* region (chain).                                                         *)
(***************************************************************************)
EXTENDS Integers, Sequences, FiniteSets, TLC

\* Bounds of the model.  Spec, SpecDrop and SpecRelease allocate at most
\* MaxObjs objects in at most MaxRegs regions; SpecNested and SpecSteps, which
\* have fewer operations, use the whole address space of NestObjs objects and
\* NestRegs regions.  The heap holds at most MaxEdges references, in
\* SpecSteps at most StepEdges.
MaxObjs == 3
MaxRegs == 2
MaxEdges == 2
NestObjs == 4
NestRegs == 3
StepEdges == 2

Objs == 1..NestObjs
Regs == {0 - i : i \in 1..NestRegs}
Null == 0

\* The descriptors objects are allocated with: a trivial one (no finaliser,
\* no destructor, no subregion fields) and a non-trivial one.
Descs == <<[size |-> 8, trivial |-> TRUE], [size |-> 24, trivial |-> FALSE]>>

VARIABLES
  obj,      \* obj[p]: allocation state, descriptor, next slot, class tag, fields
  reg,      \* reg[r]: the RegionTrace metadata object at address r
  pc,       \* position inside gc: "idle", "sweep", "collect"; stepwise also
            \* "mark", "walk", "phaseA", "phaseB"
  gcreg,    \* gc's local reg
  gco,      \* gc's argument o, the iso of the region being collected
  collect,  \* gc's ObjectStack collect
  log,      \* calls made by the current gc: finalise, destructor, dealloc, ...
  last,     \* the last operation, with the heap it started from
  loc       \* the locals of mark, sweep and sweep_ring while gc runs stepwise

vars == <<obj, reg, pc, gcreg, gco, collect, log, last, loc>>

FreeObj == [st |-> "free", desc |-> 0, next |-> Null, cls |-> "UNMARKED", fields |-> {}]
DeadObj == [st |-> "dead", desc |-> 0, next |-> Null, cls |-> "UNMARKED", fields |-> {}]
FreeReg == [st |-> "free", next |-> Null, next_not_root |-> Null, last_not_root |-> Null,
            current_memory_used |-> 0, previous_memory_used |-> 0]
DeadReg == [FreeReg EXCEPT !.st = "dead"]

NoSnap == [none |-> TRUE]
NoLast == [op |-> "none", a |-> Null, b |-> Null, pre |-> NoSnap, pre2 |-> NoSnap, chain |-> FALSE]

\* No gc is running stepwise: the locals hold nothing.
NoLoc == [dfs |-> <<>>, r |-> Null, o |-> Null, sweep_all |-> FALSE, primary_ring |-> "",
          ring |-> "", prev |-> Null, p |-> Null, gc |-> Null]

\* The machine state the operations below transform.
Mach == [obj |-> obj, reg |-> reg, log |-> log, collect |-> collect]
Snap == [obj |-> obj, reg |-> reg]

(***************************************************************************)
(* Object header (object.h is not part of src/; modelled from spec 3, 4.1) *)
(***************************************************************************)
get_class(s, p) == IF p \in Objs THEN s.obj[p].cls ELSE "UNMARKED"

get_next(s, p) ==
  IF p \in Objs THEN s.obj[p].next
  ELSE IF p \in Regs THEN s.reg[p].next
  ELSE Null

\* set_next rewrites the pointer and keeps the class tag.
set_next(s, p, o) ==
  IF p \in Objs THEN [s EXCEPT !.obj[p].next = o]
  ELSE IF p \in Regs THEN [s EXCEPT !.reg[p].next = o]
  ELSE s

\* init_next rewrites the whole slot: the tag becomes UNMARKED.
init_next(s, p, o) ==
  IF p \in Objs THEN [s EXCEPT !.obj[p].next = o, !.obj[p].cls = "UNMARKED"]
  ELSE IF p \in Regs THEN [s EXCEPT !.reg[p].next = o]
  ELSE s

\* init_iso followed by set_region: class ISO, the slot holds the region.
init_iso_set_region(s, p, r) ==
  [s EXCEPT !.obj[p].next = r, !.obj[p].cls = "ISO"]

get_region(s, o) == s.obj[o].next

mark_object(s, p) == [s EXCEPT !.obj[p].cls = "MARKED"]
unmark(s, p) == [s EXCEPT !.obj[p].cls = "UNMARKED"]

is_trivial(s, p) ==
  IF p \in Objs /\ s.obj[p].desc \in DOMAIN Descs THEN Descs[s.obj[p].desc].trivial
  ELSE TRUE

size(s, p) ==
  IF p \in Objs /\ s.obj[p].desc \in DOMAIN Descs THEN Descs[s.obj[p].desc].size
  ELSE 0

dealloc(s, p) ==
  IF p \in Objs
  THEN [s EXCEPT !.obj[p] = DeadObj, !.log = Append(@, <<"dealloc", p>>)]
  ELSE [s EXCEPT !.reg[p] = DeadReg, !.log = Append(@, <<"dealloc", p>>)]

\* The descriptor's trace function pushes the object's fields on the stack.
RECURSIVE SetToSeq(_)
SetToSeq(S) ==
  IF S = {} THEN <<>>
  ELSE LET m == CHOOSE x \in S : \A y \in S : x <= y
       IN <<m>> \o SetToSeq(S \ {m})

trace(s, p, dfs) == dfs \o SetToSeq(s.obj[p].fields)

(***************************************************************************)
(* snmalloc's size classes, as far as previous_memory_used needs them      *)
(***************************************************************************)
SizeClasses == <<16, 32, 48, 64, 80, 96, 112, 128, 160, 192, 224, 256, 320, 384, 448, 512>>

size_to_sizeclass(n) ==
  IF \E i \in DOMAIN SizeClasses : SizeClasses[i] >= n
  THEN (CHOOSE i \in DOMAIN SizeClasses :
          SizeClasses[i] >= n /\ \A j \in DOMAIN SizeClasses : SizeClasses[j] >= n => i <= j) - 1
  ELSE Len(SizeClasses) - 1

sizeclass_to_size(c) == SizeClasses[c + 1]

(***************************************************************************)
(* Rings                                                                   *)
(***************************************************************************)
RECURSIVE Walk(_, _, _, _)
Walk(s, r, p, n) ==
  IF p = r \/ p \notin Objs \/ n = 0 THEN <<>>
  ELSE <<p>> \o Walk(s, r, s.obj[p].next, n - 1)

RECURSIVE WalkEnd(_, _, _, _)
WalkEnd(s, r, p, n) ==
  IF p = r \/ p \notin Objs \/ n = 0 THEN p
  ELSE WalkEnd(s, r, s.obj[p].next, n - 1)

Range(q) == {q[i] : i \in DOMAIN q}

PrimaryRing(s, r) ==
  IF r \in Regs THEN Walk(s, r, s.reg[r].next, NestObjs + 1) ELSE <<>>

SecondaryRing(s, r) ==
  IF r \in Regs THEN Walk(s, r, s.reg[r].next_not_root, NestObjs + 1) ELSE <<>>
Members(s, r) == Range(PrimaryRing(s, r)) \cup Range(SecondaryRing(s, r))

LiveRegs(s) == {r \in Regs : s.reg[r].st = "live"}
LiveObjs(s) == {p \in Objs : s.obj[p].st = "live"}

\* The region whose rings hold p (Null when none does).
RegionOf(s, p) ==
  IF \E r \in LiveRegs(s) : p \in Members(s, r)
  THEN CHOOSE r \in LiveRegs(s) : p \in Members(s, r)
  ELSE Null

\* The iso of region r: the object whose slot holds r with class ISO.
IsoOf(s, r) ==
  IF \E p \in LiveObjs(s) : s.obj[p].cls = "ISO" /\ s.obj[p].next = r
  THEN CHOOSE p \in LiveObjs(s) : s.obj[p].cls = "ISO" /\ s.obj[p].next = r
  ELSE Null

use_memory(s, r, n) ==
  [s EXCEPT !.reg[r].current_memory_used = @ + n]

\* append that links the tail with set_next, which keeps the tail's class tag.
append_keep_tag(s, r, hd, tl) ==
  LET p == get_next(s, r) IN
  IF is_trivial(s, hd) = is_trivial(s, p)
  THEN set_next(set_next(s, tl, p), r, hd)
  ELSE LET s1 == set_next(s, tl, s.reg[r].next_not_root)
           s2 == [s1 EXCEPT !.reg[r].next_not_root = hd]
       IN IF s.reg[r].last_not_root = r
          THEN [s2 EXCEPT !.reg[r].last_not_root = tl]
          ELSE s2

\* append that puts every object in the primary ring.
append_always_primary(s, r, hd, tl) ==
  set_next(init_next(s, tl, get_next(s, r)), r, hd)

\* append that does not link the tail when it goes to the secondary ring.
append_no_link(s, r, hd, tl) ==
  LET p == get_next(s, r) IN
  IF is_trivial(s, hd) = is_trivial(s, p)
  THEN set_next(init_next(s, tl, p), r, hd)
  ELSE LET s2 == [s EXCEPT !.reg[r].next_not_root = hd]
       IN IF s.reg[r].last_not_root = r
          THEN [s2 EXCEPT !.reg[r].last_not_root = tl]
          ELSE s2

\* append(hd, tl), lines 272-289
append(s, r, hd, tl) ==
  LET p == get_next(s, r) IN
  IF is_trivial(s, hd) = is_trivial(s, p)
  THEN set_next(init_next(s, tl, p), r, hd)
  ELSE LET s1 == init_next(s, tl, s.reg[r].next_not_root)
           s2 == [s1 EXCEPT !.reg[r].next_not_root = hd]
       IN IF s.reg[r].last_not_root = r
          THEN [s2 EXCEPT !.reg[r].last_not_root = tl]
          ELSE s2

\* The allocator: the lowest address never handed out.
NewObj(s) == CHOOSE p \in Objs : s.obj[p].st = "free" /\ \A q \in 1..(p - 1) : s.obj[q].st # "free"
NewReg(s) == CHOOSE r \in Regs : s.reg[r].st = "free" /\ \A q \in Regs : q > r => s.reg[q].st # "free"

\* create(alloc, desc), lines 107-126
create(s, d) ==
  LET o == NewObj(s)
      r == NewReg(s)
      s1 == [s EXCEPT !.obj[o] = [st |-> "live", desc |-> d, next |-> Null,
                                  cls |-> "UNMARKED", fields |-> {}],
                      !.reg[r] = [st |-> "live", next |-> o, next_not_root |-> r,
                                  last_not_root |-> r, current_memory_used |-> 0,
                                  previous_memory_used |-> 0]]
      s2 == use_memory(s1, r, Descs[d].size)
  IN init_iso_set_region(s2, o, r)

\* alloc that does not account the new object's memory.
alloc_no_accounting(s, in, d) ==
  LET r == get_region(s, in)
      o == NewObj(s)
      s1 == [s EXCEPT !.obj[o] = [st |-> "live", desc |-> d, next |-> Null,
                                  cls |-> "UNMARKED", fields |-> {}]]
  IN append(s1, r, o, o)

\* alloc(alloc, in, desc), lines 137-157
alloc(s, in, d) ==
  LET r == get_region(s, in)
      o == NewObj(s)
      s1 == [s EXCEPT !.obj[o] = [st |-> "live", desc |-> d, next |-> Null,
                                  cls |-> "UNMARKED", fields |-> {}]]
      s2 == append(s1, r, o, o)
  IN use_memory(s2, r, Descs[d].size)

\* Appending the objects of q one at a time.
RECURSIVE append_each(_, _, _)
append_each(s, r, q) ==
  IF q = <<>> THEN s
  ELSE append_each(append(s, r, q[1], q[1]), r, Tail(q))

\* merge_internal that walks the donor's rings and appends every object.
merge_internal_per_object(s, r, o, other) ==
  LET s1 == append_each(s, r, PrimaryRing(s, other) \o SecondaryRing(s, other))
      s2 == [s1 EXCEPT !.reg[r].current_memory_used = @ + s1.reg[other].current_memory_used]
  IN [s2 EXCEPT !.reg[r].previous_memory_used =
        size_to_sizeclass(sizeclass_to_size(s2.reg[other].previous_memory_used)
                          + sizeclass_to_size(s2.reg[other].previous_memory_used))]

\* merge_internal that splices the donor's primary ring only.
merge_internal_primary_only(s, r, o, other) ==
  LET head1 == get_next(s, other)
      s1 == IF head1 # other THEN append(s, r, head1, o) ELSE s
  IN [s1 EXCEPT !.reg[r].current_memory_used = @ + s1.reg[other].current_memory_used]

\* merge_internal(o, other), lines 291-312
merge_internal(s, r, o, other) ==
  LET head1 == get_next(s, other)
      s1 == IF head1 # other THEN append(s, r, head1, o) ELSE s
      head2 == s1.reg[other].next_not_root
      s2 == IF head2 # other THEN append(s1, r, head2, s1.reg[other].last_not_root) ELSE s1
      s3 == [s2 EXCEPT !.reg[r].current_memory_used = @ + s2.reg[other].current_memory_used]
  IN [s3 EXCEPT !.reg[r].previous_memory_used =
        size_to_sizeclass(sizeclass_to_size(s3.reg[other].previous_memory_used)
                          + sizeclass_to_size(s3.reg[other].previous_memory_used))]

\* merge(alloc, into, o), lines 182-200
merge(s, into, o) ==
  LET r == get_region(s, into)
      other == get_region(s, o)
      s1 == merge_internal(s, r, o, other)
  IN [s1 EXCEPT !.reg[other] = DeadReg]

\* swap_root_internal that leaves the primary anchor where it was.
swap_root_internal_keep_anchor(s, r, oroot0, nroot) ==
  LET swapRings == is_trivial(s, oroot0) # is_trivial(s, nroot)
      sa == IF swapRings
            THEN LET t == get_next(s, r)
                     a1 == set_next(s, r, s.reg[r].next_not_root)
                     a2 == [a1 EXCEPT !.reg[r].next_not_root = t,
                                      !.reg[r].last_not_root = oroot0]
                 IN init_next(a2, oroot0, r)
            ELSE s
      oroot == IF swapRings THEN s.reg[r].last_not_root ELSE oroot0
      sb == IF oroot # nroot
            THEN init_next(sa, oroot, get_next(sa, r))
            ELSE sa
  IN init_iso_set_region(sb, nroot, r)

\* swap_root_internal that never exchanges the two rings.
swap_root_internal_no_exchange(s, r, oroot0, nroot) ==
  LET sb == IF oroot0 # nroot
            THEN LET x == get_next(s, r)
                     y == get_next(s, nroot)
                 IN set_next(init_next(s, oroot0, x), r, y)
            ELSE s
  IN init_iso_set_region(sb, nroot, r)

\* swap_root_internal(oroot, nroot), lines 314-351
swap_root_internal(s, r, oroot0, nroot) ==
  LET swapRings == is_trivial(s, oroot0) # is_trivial(s, nroot)
      sa == IF swapRings
            THEN LET t == get_next(s, r)
                     a1 == set_next(s, r, s.reg[r].next_not_root)
                     a2 == [a1 EXCEPT !.reg[r].next_not_root = t,
                                      !.reg[r].last_not_root = oroot0]
                 IN init_next(a2, oroot0, r)
            ELSE s
      oroot == IF swapRings THEN s.reg[r].last_not_root ELSE oroot0
      sb == IF oroot # nroot
            THEN LET x == get_next(sa, r)
                     y == get_next(sa, nroot)
                 IN set_next(init_next(sa, oroot, x), r, y)
            ELSE sa
  IN init_iso_set_region(sb, nroot, r)

\* swap_root(prev, next), lines 206-215
swap_root(s, prev, nxt) == swap_root_internal(s, get_region(s, prev), prev, nxt)

(***************************************************************************)
(* Mark                                                                    *)
(***************************************************************************)
\* A mark loop that marks an UNMARKED object and does not trace it.
RECURSIVE mark_loop_no_trace(_, _)
mark_loop_no_trace(s, dfs) ==
  IF dfs = <<>> THEN s
  ELSE LET p == dfs[Len(dfs)]
           rest == SubSeq(dfs, 1, Len(dfs) - 1)
       IN IF get_class(s, p) = "UNMARKED"
          THEN mark_loop_no_trace(mark_object(s, p), rest)
          ELSE mark_loop_no_trace(s, rest)

\* The loop of mark, lines 360-387: pop, switch on the class.
RECURSIVE mark_loop(_, _)
mark_loop(s, dfs) ==
  IF dfs = <<>> THEN s
  ELSE LET p == dfs[Len(dfs)]
           rest == SubSeq(dfs, 1, Len(dfs) - 1)
       IN IF get_class(s, p) = "UNMARKED"
          THEN mark_loop(mark_object(s, p), trace(s, p, rest))
          ELSE mark_loop(s, rest)

\* mark(alloc, o, dfs, marked), lines 357-388
mark(s, o) == mark_loop(s, trace(s, o, <<>>))

(***************************************************************************)
(* Sweep                                                                   *)
(***************************************************************************)
\* sweep_object that destroys a non-trivial object as soon as it is finalised.
sweep_object_one_pass(s, ring, p, gc) ==
  IF ring = "TrivialRing"
  THEN [s |-> dealloc(s, p), gc |-> gc]
  ELSE LET s1 == [s EXCEPT !.log = Append(Append(@, <<"finalise", p>>), <<"destructor", p>>)]
       IN [s |-> dealloc(s1, p), gc |-> gc]

\* sweep_object that finalises a non-trivial object and leaves it off the gc
\* list.
sweep_object_no_queue(s, ring, p, gc) ==
  IF ring = "TrivialRing"
  THEN [s |-> dealloc(s, p), gc |-> gc]
  ELSE [s |-> [s EXCEPT !.log = Append(@, <<"finalise", p>>)], gc |-> gc]

\* sweep_object<ring>(alloc, p, &gc), lines 430-460.  The result carries the
\* new head of the gc list.
sweep_object(s, ring, p, gc) ==
  IF ring = "TrivialRing"
  THEN [s |-> dealloc(s, p), gc |-> gc]
  ELSE LET s1 == [s EXCEPT !.log = Append(@, <<"finalise", p>>)]
       IN [s |-> init_next(s1, p, gc), gc |-> p]

\* The MARKED case without the call of unmark.
sweep_marked_no_unmark(s, r, p) == use_memory(s, r, size(s, p))

\* sweep_ring, case MARKED, lines 501-509: account the memory and unmark.
sweep_marked(s, r, p) == unmark(use_memory(s, r, size(s, p)), p)

\* Unlinking that never moves last_not_root.
unlink_keep_last(s, r, secondary, prev, p, q) ==
  IF secondary /\ prev = r
  THEN [s EXCEPT !.reg[r].next_not_root = q]
  ELSE set_next(s, prev, q)

\* sweep_ring, case UNMARKED, lines 516-522: unlink p, whose successor is q.
unlink(s, r, secondary, prev, p, q) ==
  LET s1 == IF secondary /\ prev = r
            THEN [s EXCEPT !.reg[r].next_not_root = q]
            ELSE set_next(s, prev, q)
  IN IF secondary /\ s1.reg[r].last_not_root = p
     THEN [s1 EXCEPT !.reg[r].last_not_root = prev]
     ELSE s1

\* The ring walk of sweep_ring, lines 476-531.  Case ISO ends the walk
\* (p = this).  A walk that leaves the heap (p is no object) ends too.
RECURSIVE sweep_walk(_, _, _, _, _, _, _, _)
sweep_walk(s, r, ring, sweep_all, primary_ring, prev, p, gc) ==
  IF p = r \/ p \notin Objs THEN [s |-> s, gc |-> gc]
  ELSE
    CASE get_class(s, p) = "ISO" ->
           IF sweep_all
           THEN sweep_object(s, ring, p, gc)
           ELSE [s |-> use_memory(s, r, size(s, p)), gc |-> gc]
      [] get_class(s, p) = "MARKED" ->
           LET s1 == sweep_marked(s, r, p)
           IN sweep_walk(s1, r, ring, sweep_all, primary_ring, p, get_next(s1, p), gc)
      [] OTHER ->
           LET q == get_next(s, p)
               so == sweep_object(s, ring, p, gc)
               s1 == unlink(so.s, r, ring # primary_ring, prev, p, q)
           IN sweep_walk(s1, r, ring, sweep_all, primary_ring, prev, q, so.gc)

\* find_iso_fields(o, f, collect) of a pending object p: every field that is
\* the iso of another region goes on collect (object.h; spec 4.4, phase A).
RECURSIVE find_iso_loop(_, _, _)
find_iso_loop(s, o, f) ==
  IF f = <<>> THEN s
  ELSE LET y == f[Len(f)]
           rest == SubSeq(f, 1, Len(f) - 1)
       IN IF y # o /\ get_class(s, y) = "ISO"
          THEN find_iso_loop([s EXCEPT !.collect = Append(@, y)], o, rest)
          ELSE find_iso_loop(s, o, rest)

find_iso_fields(s, p, o) ==
  find_iso_loop([s EXCEPT !.log = Append(@, <<"find_iso_fields", p>>)], o, trace(s, p, <<>>))

\* Phase A, lines 539-544.
RECURSIVE collect_pending(_, _, _)
collect_pending(s, o, p) ==
  IF p \notin Objs THEN s
  ELSE collect_pending(find_iso_fields(s, p, o), o, get_next(s, p))

\* Phase B, lines 546-553.
RECURSIVE destroy_pending(_, _)
destroy_pending(s, p) ==
  IF p \notin Objs THEN s
  ELSE LET q == get_next(s, p)
           s1 == [s EXCEPT !.log = Append(@, <<"destructor", p>>)]
       IN destroy_pending(dealloc(s1, p), q)

\* sweep_ring that destroys the pending objects without phase A.
sweep_ring_no_phase_a(s, r, ring, sweep_all, o, primary_ring) ==
  LET p == IF ring = primary_ring THEN get_next(s, r) ELSE s.reg[r].next_not_root
      w == sweep_walk(s, r, ring, sweep_all, primary_ring, r, p, Null)
  IN IF ring = "NonTrivialRing"
     THEN destroy_pending(w.s, w.gc)
     ELSE w.s

\* sweep_ring<ring, sweep_all>(alloc, o, primary_ring, f, collect), lines 462-561
sweep_ring(s, r, ring, sweep_all, o, primary_ring) ==
  LET p == IF ring = primary_ring THEN get_next(s, r) ELSE s.reg[r].next_not_root
      w == sweep_walk(s, r, ring, sweep_all, primary_ring, r, p, Null)
  IN IF ring = "NonTrivialRing"
     THEN destroy_pending(collect_pending(w.s, o, w.gc), w.gc)
     ELSE w.s

\* sweep that sweeps the trivial ring first.
sweep_trivial_first(s, r, o, sweep_all, marked) ==
  LET s0 == [s EXCEPT !.reg[r].current_memory_used = 0]
      primary_ring == IF is_trivial(s, o) THEN "TrivialRing" ELSE "NonTrivialRing"
      s1 == sweep_ring(s0, r, "TrivialRing", sweep_all, o, primary_ring)
      s2 == sweep_ring(s1, r, "NonTrivialRing", sweep_all, o, primary_ring)
      s3 == [s2 EXCEPT !.log = Append(@, <<"sweep_set", r, marked>>)]
  IN [s3 EXCEPT !.reg[r].previous_memory_used =
        size_to_sizeclass(s3.reg[r].current_memory_used)]

\* sweep that does not reset current_memory_used.
sweep_keep_counter(s, r, o, sweep_all, marked) ==
  LET primary_ring == IF is_trivial(s, o) THEN "TrivialRing" ELSE "NonTrivialRing"
      s1 == sweep_ring(s, r, "NonTrivialRing", sweep_all, o, primary_ring)
      s2 == sweep_ring(s1, r, "TrivialRing", sweep_all, o, primary_ring)
      s3 == [s2 EXCEPT !.log = Append(@, <<"sweep_set", r, marked>>)]
  IN [s3 EXCEPT !.reg[r].previous_memory_used =
        size_to_sizeclass(s3.reg[r].current_memory_used)]

\* sweep that calls sweep_set before it sweeps the rings.
sweep_set_before_rings(s, r, o, sweep_all, marked) ==
  LET s0 == [s EXCEPT !.reg[r].current_memory_used = 0,
                      !.log = Append(@, <<"sweep_set", r, marked>>)]
      primary_ring == IF is_trivial(s, o) THEN "TrivialRing" ELSE "NonTrivialRing"
      s1 == sweep_ring(s0, r, "NonTrivialRing", sweep_all, o, primary_ring)
      s2 == sweep_ring(s1, r, "TrivialRing", sweep_all, o, primary_ring)
  IN [s2 EXCEPT !.reg[r].previous_memory_used =
        size_to_sizeclass(s2.reg[r].current_memory_used)]

\* sweep<sweep_all>(alloc, o, f, collect, marked), lines 404-424
sweep(s, r, o, sweep_all, marked) ==
  LET s0 == [s EXCEPT !.reg[r].current_memory_used = 0]
      primary_ring == IF is_trivial(s, o) THEN "TrivialRing" ELSE "NonTrivialRing"
      s1 == sweep_ring(s0, r, "NonTrivialRing", sweep_all, o, primary_ring)
      s2 == sweep_ring(s1, r, "TrivialRing", sweep_all, o, primary_ring)
      s3 == [s2 EXCEPT !.log = Append(@, <<"sweep_set", r, marked>>)]
  IN [s3 EXCEPT !.reg[r].previous_memory_used =
        size_to_sizeclass(s3.reg[r].current_memory_used)]

\* release_internal that sweeps as a normal gc sweep does, keeping the iso.
release_internal_normal_sweep(s, r, o) ==
  LET s0 == [s EXCEPT !.log = Append(@, <<"release_internal", r>>)]
  IN dealloc(sweep(s0, r, o, FALSE, 0), r)

\* release_internal(alloc, o, f, collect), lines 569-580
release_internal(s, r, o) ==
  LET s0 == [s EXCEPT !.log = Append(@, <<"release_internal", r>>)]
  IN dealloc(sweep(s0, r, o, TRUE, 0), r)

(***************************************************************************)
(* The loops of mark, sweep_ring and gc, one turn at a time                *)
(***************************************************************************)
\* A turn of mark's loop that traces an UNMARKED object without marking it.
mark_step_no_mark(s, dfs) ==
  LET p == dfs[Len(dfs)]
      rest == SubSeq(dfs, 1, Len(dfs) - 1)
  IN IF get_class(s, p) = "UNMARKED"
     THEN [s |-> s, dfs |-> trace(s, p, rest)]
     ELSE [s |-> s, dfs |-> rest]

\* One turn of mark's loop, lines 362-386: pop, switch on the class.
mark_step(s, dfs) ==
  LET p == dfs[Len(dfs)]
      rest == SubSeq(dfs, 1, Len(dfs) - 1)
  IN IF get_class(s, p) = "UNMARKED"
     THEN [s |-> mark_object(s, p), dfs |-> trace(s, p, rest)]
     ELSE [s |-> s, dfs |-> rest]

\* sweep_ring, lines 470-472: the locals prev, p and gc at the ring's entry.
ring_entry(s, l, ring) ==
  [l EXCEPT !.ring = ring,
            !.prev = l.r,
            !.p = IF ring = l.primary_ring THEN get_next(s, l.r)
                  ELSE s.reg[l.r].next_not_root,
            !.gc = Null]

\* sweep, lines 412-419: the counter is reset, the primary ring is read off
\* the iso and the non-trivial ring is entered.
sweep_entry(s, r, o, sweep_all) ==
  LET s0 == [s EXCEPT !.reg[r].current_memory_used = 0]
      l == [NoLoc EXCEPT !.r = r, !.o = o, !.sweep_all = sweep_all,
                         !.primary_ring = IF is_trivial(s, o) THEN "TrivialRing"
                                          ELSE "NonTrivialRing"]
  IN [s |-> s0, l |-> ring_entry(s0, l, "NonTrivialRing")]

\* One turn of the ring walk, lines 478-530.
walk_step(s, l) ==
  CASE get_class(s, l.p) = "ISO" ->
         IF l.sweep_all
         THEN LET so == sweep_object(s, l.ring, l.p, l.gc)
              IN [s |-> so.s, l |-> [l EXCEPT !.gc = so.gc, !.p = l.r]]
         ELSE [s |-> use_memory(s, l.r, size(s, l.p)), l |-> [l EXCEPT !.p = l.r]]
    [] get_class(s, l.p) = "MARKED" ->
         LET s1 == sweep_marked(s, l.r, l.p)
         IN [s |-> s1, l |-> [l EXCEPT !.prev = l.p, !.p = get_next(s1, l.p)]]
    [] OTHER ->
         LET q == get_next(s, l.p)
             so == sweep_object(s, l.ring, l.p, l.gc)
             s1 == unlink(so.s, l.r, l.ring # l.primary_ring, l.prev, l.p, q)
         IN [s |-> s1, l |-> [l EXCEPT !.p = q, !.gc = so.gc]]

\* One turn of phase A, lines 542-543.
phase_a_step(s, l) ==
  [s |-> find_iso_fields(s, l.p, l.o), l |-> [l EXCEPT !.p = get_next(s, l.p)]]

\* One turn of phase B, lines 549-552.
phase_b_step(s, l) ==
  LET q == get_next(s, l.p)
      s1 == [s EXCEPT !.log = Append(@, <<"destructor", l.p>>)]
  IN [s |-> dealloc(s1, l.p), l |-> [l EXCEPT !.p = q]]

\* sweep, lines 422-423, and for a released region release_internal, line 579.
sweep_exit(s, l) ==
  LET s1 == [s EXCEPT !.log = Append(@, <<"sweep_set", l.r, 0>>)]
      s2 == [s1 EXCEPT !.reg[l.r].previous_memory_used =
               size_to_sizeclass(s1.reg[l.r].current_memory_used)]
  IN IF l.sweep_all THEN dealloc(s2, l.r) ELSE s2

\* gc, lines 240-253, and release_internal, line 577: pop an iso off collect
\* and enter the sweep of its region.
collect_step(s) ==
  LET o == s.collect[Len(s.collect)]
      s0 == [s EXCEPT !.collect = SubSeq(s.collect, 1, Len(s.collect) - 1)]
      r == get_region(s0, o)
      s1 == [s0 EXCEPT !.log = Append(@, <<"release_internal", r>>)]
  IN sweep_entry(s1, r, o, TRUE)

(***************************************************************************)
(* Iteration, lines 588-673                                                *)
(***************************************************************************)
\* iterator(RegionTrace* r), lines 598-611: the first object, or nullptr.
iter_begin(s, r, type) ==
  LET q == get_next(s, r)
      ptr == CASE type = "Trivial" ->
                    IF is_trivial(s, q) THEN q ELSE s.reg[r].next_not_root
               [] type = "NonTrivial" ->
                    IF ~is_trivial(s, q) THEN q ELSE s.reg[r].next_not_root
               [] OTHER -> q
  IN IF ptr = r THEN Null ELSE ptr

\* operator++ that switches to the secondary ring whenever there is one.
iter_next_always_switch(s, r, type, ptr) ==
  LET q == get_next(s, ptr) IN
  IF q # r THEN q
  ELSE IF type = "AllObjects"
       THEN IF s.reg[r].next_not_root # r
            THEN s.reg[r].next_not_root
            ELSE Null
       ELSE Null

\* operator++, lines 616-645.  get_next_any_mark reads the slot whatever the
\* tag; the slot of the iso holds the metadata.
iter_next(s, r, type, ptr) ==
  LET q == get_next(s, ptr) IN
  IF q # r THEN q
  ELSE IF type = "AllObjects"
       THEN IF ptr # s.reg[r].last_not_root /\ s.reg[r].next_not_root # r
            THEN s.reg[r].next_not_root
            ELSE Null
       ELSE Null

\* for (auto p : *this), lines 663-684: the objects the loop visits, from
\* begin() until the iterator equals end() (nullptr).  A loop that has not
\* ended after n steps is cut there.
RECURSIVE iter_loop(_, _, _, _, _)
iter_loop(s, r, type, ptr, n) ==
  IF ptr = Null \/ n = 0 THEN <<>>
  ELSE <<ptr>> \o iter_loop(s, r, type, iter_next(s, r, type, ptr), n - 1)

Iterate(s, r, type) == iter_loop(s, r, type, iter_begin(s, r, type), NestObjs + 2)

(***************************************************************************)
(* The object graph the mutator may build (region isolation, spec 1, 3):   *)
(* a field refers to a member of the same region or, from a non-trivial    *)
(* object, to the iso of another region; an iso has at most one referrer   *)
(* outside its region; regions do not own each other in a cycle.           *)
(***************************************************************************)

EdgeCount(s) == Cardinality({e \in Objs \X Objs : e[2] \in s.obj[e[1]].fields})

Owns(s, r1, r2) ==
  /\ r1 # r2
  /\ \E x \in Members(s, r1) : \E y \in s.obj[x].fields :
       s.obj[y].cls = "ISO" /\ s.obj[y].next = r2

RECURSIVE OwnsWithin(_, _, _, _)
OwnsWithin(s, r1, r2, n) ==
  /\ n > 0
  /\ \/ Owns(s, r1, r2)
     \/ \E r3 \in LiveRegs(s) : Owns(s, r1, r3) /\ OwnsWithin(s, r3, r2, n - 1)

WellFormed(s) ==
  /\ \A x \in LiveObjs(s) : \A y \in s.obj[x].fields :
       /\ y \in LiveObjs(s)
       /\ \/ RegionOf(s, x) = RegionOf(s, y)
          \/ s.obj[y].cls = "ISO" /\ ~is_trivial(s, x)
  /\ \A y \in LiveObjs(s) :
       Cardinality({x \in LiveObjs(s) : y \in s.obj[x].fields
                                        /\ RegionOf(s, x) # RegionOf(s, y)}) <= 1
  /\ \A r \in LiveRegs(s) : ~OwnsWithin(s, r, r, NestRegs)

IsIso(s, o) ==
  /\ o \in LiveObjs(s)
  /\ s.obj[o].cls = "ISO"
  /\ s.obj[o].next \in LiveRegs(s)

(***************************************************************************)
(* The state machine                                                       *)
(***************************************************************************)
Init ==
  /\ obj = [p \in Objs |-> FreeObj]
  /\ reg = [r \in Regs |-> FreeReg]
  /\ pc = "idle"
  /\ gcreg = Null
  /\ gco = Null
  /\ collect = <<>>
  /\ log = <<>>
  /\ last = NoLast
  /\ loc = NoLoc

Apply(s) ==
  /\ obj' = s.obj
  /\ reg' = s.reg
  /\ log' = s.log
  /\ collect' = s.collect

Idle == [Mach EXCEPT !.log = <<>>, !.collect = <<>>]

\* The addresses the allocator has handed out so far.
UsedObjs == {p \in Objs : obj[p].st # "free"}
UsedRegs == {r \in Regs : reg[r].st # "free"}

Create(d, no, nr) ==
  /\ pc = "idle"
  /\ Cardinality(UsedObjs) < no
  /\ Cardinality(UsedRegs) < nr
  /\ Apply(create(Idle, d))
  /\ last' = [op |-> "create", a |-> NewObj(Idle), b |-> Null, pre |-> Snap,
              pre2 |-> NoSnap, chain |-> FALSE]
  /\ UNCHANGED <<pc, gcreg, gco, loc>>

Alloc(in, d, no) ==
  /\ pc = "idle"
  /\ IsIso(Mach, in)
  /\ Cardinality(UsedObjs) < no
  /\ Apply(alloc(Idle, in, d))
  /\ last' = [op |-> "alloc", a |-> in, b |-> NewObj(Idle), pre |-> Snap,
              pre2 |-> NoSnap, chain |-> FALSE]
  /\ UNCHANGED <<pc, gcreg, gco, loc>>

\* The objects outside y's region that hold a reference to y.
ExternalReferrers(s, y) ==
  {x \in LiveObjs(s) : y \in s.obj[x].fields /\ RegionOf(s, x) # RegionOf(s, y)}

\* The mutator stores a reference to y in a field of x, while the heap holds
\* fewer than ne references.
Store(x, y, ne) ==
  /\ pc = "idle"
  /\ x \in LiveObjs(Mach) /\ y \in LiveObjs(Mach)
  /\ y \notin obj[x].fields
  /\ EdgeCount(Mach) < ne
  /\ LET rx == RegionOf(Mach, x)
         ry == RegionOf(Mach, y)
     IN \/ rx = ry
        \/ /\ obj[y].cls = "ISO"
           /\ ~is_trivial(Mach, x)
           /\ ExternalReferrers(Mach, y) = {}
           /\ ~OwnsWithin(Mach, ry, rx, NestRegs)
  /\ Apply([Idle EXCEPT !.obj[x].fields = @ \cup {y}])
  /\ last' = NoLast
  /\ UNCHANGED <<pc, gcreg, gco, loc>>

SetField(x, y) == Store(x, y, MaxEdges)

Merge(into, o) ==
  /\ pc = "idle"
  /\ IsIso(Mach, into) /\ IsIso(Mach, o)
  /\ get_region(Mach, into) # get_region(Mach, o)
  /\ ExternalReferrers(Mach, o) \subseteq Members(Mach, get_region(Mach, into))
  /\ LET s == merge(Idle, into, o)
         r == get_region(Mach, into)
     IN ~OwnsWithin(s, r, r, NestRegs) /\ Apply(s)
  /\ last' = [op |-> "merge", a |-> into, b |-> o, pre |-> Snap, pre2 |-> NoSnap,
              chain |-> FALSE]
  /\ UNCHANGED <<pc, gcreg, gco, loc>>

SwapRoot(prev, nxt) ==
  /\ pc = "idle"
  /\ IsIso(Mach, prev)
  /\ prev # nxt
  /\ nxt \in Members(Mach, get_region(Mach, prev))
  /\ ExternalReferrers(Mach, prev) = {}
  /\ Apply(swap_root(Idle, prev, nxt))
  /\ last' = [op |-> "swap_root", a |-> prev, b |-> nxt, pre |-> Snap,
              pre2 |-> IF last.op = "swap_root" /\ last.a = nxt /\ last.b = prev
                       THEN last.pre ELSE NoSnap,
              chain |-> FALSE]
  /\ UNCHANGED <<pc, gcreg, gco, loc>>

\* gc, lines 222-234: entry and mark.
GcMark(o) ==
  /\ pc = "idle"
  /\ IsIso(Mach, o)
  /\ Apply(mark(Idle, o))
  /\ pc' = "sweep"
  /\ gcreg' = get_region(Mach, o)
  /\ gco' = o
  /\ last' = [op |-> "gc", a |-> o, b |-> Null, pre |-> Snap,
              pre2 |-> IF last.op = "clear" THEN last.pre ELSE NoSnap,
              chain |-> (last.op = "gc" /\ last.a = o)]
  /\ UNCHANGED loc

\* gc, line 234: sweep.
GcSweep ==
  /\ pc = "sweep"
  /\ Apply(sweep(Mach, gcreg, gco, FALSE, 0))
  /\ pc' = "collect"
  /\ UNCHANGED <<gcreg, gco, last, loc>>

\* gc, lines 238-258: one turn of the loop that drains collect.
GcRelease ==
  /\ pc = "collect"
  /\ collect # <<>>
  /\ LET o == collect[Len(collect)]
         s == [Mach EXCEPT !.collect = SubSeq(collect, 1, Len(collect) - 1)]
     IN Apply(release_internal(s, get_region(s, o), o))
  /\ UNCHANGED <<pc, gcreg, gco, last, loc>>

\* gc, line 259: collect is empty, gc returns.
GcReturn ==
  /\ pc = "collect"
  /\ collect = <<>>
  /\ pc' = "idle"
  /\ gcreg' = Null
  /\ gco' = Null
  /\ UNCHANGED <<obj, reg, collect, log, last>>
  /\ loc' = NoLoc

Next ==
  \/ \E d \in DOMAIN Descs : Create(d, MaxObjs, MaxRegs)
  \/ \E in \in Objs, d \in DOMAIN Descs : Alloc(in, d, MaxObjs)
  \/ \E x \in Objs, y \in Objs : SetField(x, y)
  \/ \E into \in Objs, o \in Objs : Merge(into, o)
  \/ \E prev \in Objs, nxt \in Objs : SwapRoot(prev, nxt)
  \/ \E o \in Objs : GcMark(o)
  \/ GcSweep
  \/ GcRelease
  \/ GcReturn

Spec == Init /\ [][Next]_vars

\* Regions nested three deep: create, alloc, the mutator's stores and gc on
\* the whole address space.
NextNested ==
  \/ \E d \in DOMAIN Descs : Create(d, NestObjs, NestRegs)
  \/ \E in \in Objs, d \in DOMAIN Descs : Alloc(in, d, NestObjs)
  \/ \E x \in Objs, y \in Objs : SetField(x, y)
  \/ \E o \in Objs : GcMark(o)
  \/ GcSweep
  \/ GcRelease
  \/ GcReturn

SpecNested == Init /\ [][NextNested]_vars

\* The mutator clears the field of x that refers to y.
ClearField(x, y) ==
  /\ pc = "idle"
  /\ x \in LiveObjs(Mach)
  /\ y \in obj[x].fields
  /\ Apply([Idle EXCEPT !.obj[x].fields = @ \ {y}])
  /\ last' = [op |-> "clear", a |-> x, b |-> y, pre |-> Snap, pre2 |-> NoSnap,
              chain |-> FALSE]
  /\ UNCHANGED <<pc, gcreg, gco, loc>>

\* release(iso) of a region nothing refers to (spec 4.1, 4.4): the region's
\* release_internal, then the loop that drains collect (GcRelease, GcReturn).
Release(o) ==
  /\ pc = "idle"
  /\ IsIso(Mach, o)
  /\ ExternalReferrers(Mach, o) = {}
  /\ Apply(release_internal(Idle, get_region(Mach, o), o))
  /\ pc' = "collect"
  /\ gcreg' = get_region(Mach, o)
  /\ gco' = o
  /\ last' = [op |-> "release", a |-> o, b |-> Null, pre |-> Snap, pre2 |-> NoSnap,
              chain |-> FALSE]
  /\ UNCHANGED loc

\* All operations, with a mutator that also clears fields.
NextDrop ==
  \/ \E d \in DOMAIN Descs : Create(d, MaxObjs, MaxRegs)
  \/ \E in \in Objs, d \in DOMAIN Descs : Alloc(in, d, MaxObjs)
  \/ \E x \in Objs, y \in Objs : SetField(x, y)
  \/ \E x \in Objs, y \in Objs : ClearField(x, y)
  \/ \E into \in Objs, o \in Objs : Merge(into, o)
  \/ \E prev \in Objs, nxt \in Objs : SwapRoot(prev, nxt)
  \/ \E o \in Objs : GcMark(o)
  \/ GcSweep
  \/ GcRelease
  \/ GcReturn

SpecDrop == Init /\ [][NextDrop]_vars

\* All operations, with a mutator that also releases regions.
NextRelease ==
  \/ \E d \in DOMAIN Descs : Create(d, MaxObjs, MaxRegs)
  \/ \E in \in Objs, d \in DOMAIN Descs : Alloc(in, d, MaxObjs)
  \/ \E x \in Objs, y \in Objs : SetField(x, y)
  \/ \E into \in Objs, o \in Objs : Merge(into, o)
  \/ \E prev \in Objs, nxt \in Objs : SwapRoot(prev, nxt)
  \/ \E o \in Objs : GcMark(o)
  \/ GcSweep
  \/ GcRelease
  \/ GcReturn
  \/ \E o \in Objs : Release(o)

SpecRelease == Init /\ [][NextRelease]_vars

(***************************************************************************)
(* gc one loop turn at a time                                              *)
(***************************************************************************)
\* A loop whose condition is false is left: the straight-line code up to the
\* next loop's head.  c holds the heap c.s, the locals c.l and the position
\* c.pc.
loop_exit(c) ==
  CASE c.pc = "mark" /\ c.l.dfs = <<>> ->
         \* mark returns; gc, line 234, enters sweep
         LET e == sweep_entry(c.s, c.l.r, c.l.o, FALSE)
         IN [s |-> e.s, l |-> e.l, pc |-> "walk"]
    [] c.pc = "walk" /\ c.l.p = c.l.r /\ c.l.ring = "NonTrivialRing" ->
         \* line 539
         [c EXCEPT !.pc = "phaseA", !.l.p = c.l.gc]
    [] c.pc = "phaseA" /\ c.l.p = Null ->
         \* line 546
         [c EXCEPT !.pc = "phaseB", !.l.p = c.l.gc]
    [] c.pc = "phaseB" /\ c.l.p = Null ->
         \* sweep, line 420, enters the trivial ring
         [c EXCEPT !.pc = "walk", !.l = ring_entry(c.s, c.l, "TrivialRing")]
    [] c.pc = "walk" /\ c.l.p = c.l.r /\ c.l.ring = "TrivialRing" ->
         \* sweep returns, and release_internal with it: gc, line 238
         [s |-> sweep_exit(c.s, c.l), l |-> NoLoc, pc |-> "collect"]
    [] OTHER -> c

\* The next state is the configuration c0 run on through the loops that have
\* no turn to take: mark, the walk of either ring and the two phases.
Goto(c0) ==
  \E c1 \in {loop_exit(c0)} : \E c2 \in {loop_exit(c1)} : \E c3 \in {loop_exit(c2)} :
  \E c4 \in {loop_exit(c3)} : \E c5 \in {loop_exit(c4)} :
    /\ Apply(c5.s)
    /\ loc' = c5.l
    /\ pc' = c5.pc

\* gc, lines 222-233, and mark, line 359: the iso's fields go on dfs.
GcEnter(o) ==
  /\ pc = "idle"
  /\ IsIso(Mach, o)
  /\ \E c \in {[s |-> Idle, pc |-> "mark",
                l |-> [NoLoc EXCEPT !.r = get_region(Mach, o), !.o = o,
                                    !.dfs = trace(Idle, o, <<>>)]]} : Goto(c)
  /\ gcreg' = get_region(Mach, o)
  /\ gco' = o
  /\ last' = NoLast

\* mark, lines 360-387: one turn while dfs is not empty.
MarkStep ==
  /\ pc = "mark"
  /\ loc.dfs # <<>>
  /\ \E m \in {mark_step(Mach, loc.dfs)} :
       Goto([s |-> m.s, l |-> [loc EXCEPT !.dfs = m.dfs], pc |-> pc])
  /\ UNCHANGED <<gcreg, gco, last>>

\* sweep_ring, line 476: one turn while p is not the metadata.
WalkStep ==
  /\ pc = "walk"
  /\ loc.p # loc.r
  /\ loc.p \in Objs
  /\ \E w \in {walk_step(Mach, loc)} : Goto([s |-> w.s, l |-> w.l, pc |-> pc])
  /\ UNCHANGED <<gcreg, gco, last>>

\* sweep_ring, line 540: one turn of phase A.
PhaseAStep ==
  /\ pc = "phaseA"
  /\ loc.p \in Objs
  /\ \E a \in {phase_a_step(Mach, loc)} : Goto([s |-> a.s, l |-> a.l, pc |-> pc])
  /\ UNCHANGED <<gcreg, gco, last>>

\* sweep_ring, line 547: one turn of phase B.
PhaseBStep ==
  /\ pc = "phaseB"
  /\ loc.p \in Objs
  /\ \E b \in {phase_b_step(Mach, loc)} : Goto([s |-> b.s, l |-> b.l, pc |-> pc])
  /\ UNCHANGED <<gcreg, gco, last>>

\* gc, line 238: one turn while collect is not empty.
CollectStep ==
  /\ pc = "collect"
  /\ collect # <<>>
  /\ \E c \in {collect_step(Mach)} : Goto([s |-> c.s, l |-> c.l, pc |-> "walk"])
  /\ UNCHANGED <<gcreg, gco, last>>

\* The steps of a running gc.
GcStep ==
  \/ MarkStep
  \/ WalkStep
  \/ PhaseAStep
  \/ PhaseBStep
  \/ CollectStep
  \/ GcReturn

\* The mutator builds regions and object graphs; gc runs one loop turn at a
\* time.
NextSteps ==
  \/ \E d \in DOMAIN Descs : Create(d, NestObjs, NestRegs)
  \/ \E in \in Objs, d \in DOMAIN Descs : Alloc(in, d, NestObjs)
  \/ \E x \in Objs, y \in Objs : Store(x, y, StepEdges)
  \/ \E o \in Objs : GcEnter(o)
  \/ GcStep

\* gc is a sequential function: once called, the thread that runs it takes
\* its next step.
SpecSteps == Init /\ [][NextSteps]_vars /\ WF_vars(GcStep)

(***************************************************************************)
(* Sanity of the model                                                     *)
(***************************************************************************)
TypeOK ==
  /\ \A p \in Objs : obj[p].st \in {"free", "live", "dead"}
                     /\ obj[p].cls \in {"ISO", "UNMARKED", "MARKED"}
                     /\ obj[p].next \in Objs \cup Regs \cup {Null}
  /\ pc \in {"idle", "sweep", "collect", "mark", "walk", "phaseA", "phaseB"}

GraphOK == WellFormed(Mach)

(***************************************************************************)
(* Properties                                                              *)
(***************************************************************************)
RECURSIVE SumSizes(_, _)
SumSizes(s, S) ==
  IF S = {} THEN 0
  ELSE LET p == CHOOSE x \in S : TRUE
       IN size(s, p) + SumSizes(s, S \ {p})

InLog(kind, p) == \E i \in DOMAIN log : log[i][1] = kind /\ log[i][2] = p

\* What a normal sweep of region gcreg does to the heap it starts from.
PostSweepStep ==
  (pc = "sweep" /\ pc' = "collect") =>
    /\ \A p \in Members(Mach, gcreg) :
         /\ obj[p].cls = "UNMARKED" =>
              /\ obj'[p].st = "dead"
              /\ p \notin Members(Mach', gcreg)
              /\ \E i \in DOMAIN log' : log'[i] = <<"dealloc", p>>
         /\ obj[p].cls = "MARKED" =>
              /\ obj'[p].st = "live"
              /\ obj'[p].cls = "UNMARKED"
              /\ p \in Range(PrimaryRing(Mach, gcreg)) => p \in Range(PrimaryRing(Mach', gcreg))
              /\ p \in Range(SecondaryRing(Mach, gcreg)) => p \in Range(SecondaryRing(Mach', gcreg))
         /\ obj[p].cls = "ISO" =>
              /\ obj'[p] = obj[p]
              /\ p \in Range(PrimaryRing(Mach', gcreg))
    /\ reg'[gcreg].st = "live"
    /\ reg'[gcreg].current_memory_used = SumSizes(Mach', Members(Mach', gcreg))

\* C1 (post-sweep): a normal sweep deallocates and unlinks every member that
\* was UNMARKED when it started, leaves every MARKED member in its ring with
\* class UNMARKED, keeps the iso, and leaves current_memory_used equal to the
\* sum of the descriptor sizes of the surviving members, the iso included.
C1_PostSweep == [][PostSweepStep]_vars

\* A sweep has run that freed one member and kept another beside the iso.
C1_Witness ==
  /\ pc = "collect"
  /\ \E p \in Objs : obj[p].st = "dead" /\ InLog("dealloc", p)
  /\ \E q \in Members(Mach, gcreg) : obj[q].cls = "UNMARKED"

\* The objects reachable from the iso o of region r through references
\* between members of r, computed as a fixpoint over sets.
RECURSIVE ReachWithin(_, _, _, _)
ReachWithin(s, r, seen, n) ==
  IF n = 0 THEN seen
  ELSE ReachWithin(s, r,
         seen \cup UNION {s.obj[x].fields : x \in seen \cap Members(s, r)}, n - 1)

Reachable(s, r, o) == ReachWithin(s, r, s.obj[o].fields, NestObjs)

\* C2 (post-mark): when mark has finished and sweep has not started, every
\* member reachable from the iso through intra-region references is MARKED
\* or ISO, and no unreachable member is MARKED.
C2_PostMark ==
  pc = "sweep" =>
    \A p \in Members(Mach, gcreg) :
      /\ p \in Reachable(Mach, gcreg, gco) => obj[p].cls \in {"MARKED", "ISO"}
      /\ p \notin Reachable(Mach, gcreg, gco) => obj[p].cls # "MARKED"

\* Mark has finished on a graph with a cycle through the iso, a member only
\* reachable through another member, or an unreachable member.
C2_Witness ==
  /\ pc = "sweep"
  /\ \E p \in Members(Mach, gcreg) :
       /\ obj[p].cls = "MARKED"
       /\ gco \in obj[p].fields
  /\ \E q \in Members(Mach, gcreg) : obj[q].cls = "UNMARKED"

\* The last element of a ring (Null for an empty one).
LastOf(ring) == IF ring = <<>> THEN Null ELSE ring[Len(ring)]

\* C3 (iso terminator): between operations every region has exactly one
\* member of class ISO; it is the last node of the primary ring and its slot
\* holds the metadata, which is its region back-reference.
C3_IsoTerminator ==
  pc = "idle" =>
    \A r \in LiveRegs(Mach) :
      LET isos == {p \in Members(Mach, r) : obj[p].cls = "ISO"}
          o == LastOf(PrimaryRing(Mach, r))
      IN /\ Cardinality(isos) = 1
         /\ isos = {o}
         /\ obj[o].next = r
         /\ get_region(Mach, o) = r
         /\ WalkEnd(Mach, r, reg[r].next, NestObjs + 1) = r

\* Two regions were merged: the donor's metadata is freed and its former iso
\* is a member of the receiver.
C3_Witness ==
  /\ pc = "idle"
  /\ \E r \in Regs : reg[r].st = "dead"
  /\ \E r \in LiveRegs(Mach) : Cardinality(Members(Mach, r)) = MaxObjs
  /\ \E p \in Objs : obj[p].cls = "ISO"

\* C4 (ring partition): between operations every member of the primary ring
\* has the triviality of the region's iso and every member of the secondary
\* ring the opposite one.
C4_RingPartition ==
  pc = "idle" =>
    \A r \in LiveRegs(Mach) :
      LET o == IsoOf(Mach, r) IN
      /\ o # Null
      /\ \A p \in Range(PrimaryRing(Mach, r)) : is_trivial(Mach, p) = is_trivial(Mach, o)
      /\ \A p \in Range(SecondaryRing(Mach, r)) : is_trivial(Mach, p) # is_trivial(Mach, o)

\* A swap_root that changed the iso's triviality has run in a region that has
\* members in both rings.
C4_Witness ==
  /\ pc = "idle"
  /\ last.op = "swap_root"
  /\ is_trivial(Mach, last.a) # is_trivial(Mach, last.b)
  /\ \E r \in LiveRegs(Mach) :
       /\ last.b \in Members(Mach, r)
       /\ Len(PrimaryRing(Mach, r)) >= 2
       /\ Len(SecondaryRing(Mach, r)) >= 1

NoRepeat(ring) == \A i, j \in DOMAIN ring : ring[i] = ring[j] => i = j

\* C5 (ring closure): between operations, following next from metadata.next
\* and from next_not_root returns to the metadata without visiting an object
\* twice; no object is in both rings (nor in the rings of two regions) and
\* every object in a ring is allocated.
C5_RingClosure ==
  pc = "idle" =>
    /\ \A r \in LiveRegs(Mach) :
         /\ WalkEnd(Mach, r, reg[r].next, NestObjs + 1) = r
         /\ WalkEnd(Mach, r, reg[r].next_not_root, NestObjs + 1) = r
         /\ NoRepeat(PrimaryRing(Mach, r))
         /\ NoRepeat(SecondaryRing(Mach, r))
         /\ Range(PrimaryRing(Mach, r)) \cap Range(SecondaryRing(Mach, r)) = {}
         /\ Members(Mach, r) \subseteq LiveObjs(Mach)
    /\ \A r1, r2 \in LiveRegs(Mach) : r1 # r2 => Members(Mach, r1) \cap Members(Mach, r2) = {}
    /\ \A p \in LiveObjs(Mach) : \E r \in LiveRegs(Mach) : p \in Members(Mach, r)

\* A gc has unlinked a member from a region that keeps members in both rings.
C5_Witness ==
  /\ pc = "idle"
  /\ last.op = "gc"
  /\ \E p \in Objs : InLog("dealloc", p)
  /\ \E r \in LiveRegs(Mach) :
       /\ Len(PrimaryRing(Mach, r)) >= 1
       /\ Len(SecondaryRing(Mach, r)) >= 1

\* C6 (secondary ring anchors): between operations next_not_root is the
\* metadata exactly when last_not_root is, and last_not_root of a non-empty
\* secondary ring is its member whose next slot holds the metadata.
C6_SecondaryAnchors ==
  pc = "idle" =>
    \A r \in LiveRegs(Mach) :
      /\ reg[r].next_not_root = r <=> reg[r].last_not_root = r
      /\ reg[r].next_not_root # r =>
           /\ reg[r].last_not_root = LastOf(SecondaryRing(Mach, r))
           /\ reg[r].last_not_root \in Objs
           /\ get_next(Mach, reg[r].last_not_root) = r

\* A gc has swept the tail of a secondary ring and left the ring non-empty.
C6_Witness ==
  /\ pc = "idle"
  /\ last.op = "gc"
  /\ \E r \in LiveRegs(Mach) :
       /\ last.pre.reg[r].last_not_root \in Objs
       /\ obj[last.pre.reg[r].last_not_root].st = "dead"
       /\ reg[r].next_not_root # r

\* The sweep a log entry belongs to: every sweep ends with its sweep_set.
SweepNo(i) == Cardinality({k \in 1..(i - 1) : log[k][1] = "sweep_set"})

\* C7 (finaliser ordering): within one sweep every finaliser call comes
\* before every destructor call, every finalised object is destructed, and
\* an object's destructor call comes before its deallocation.
C7_FinaliserOrdering ==
  \A i \in DOMAIN log :
    /\ log[i][1] = "finalise" =>
         /\ \A j \in DOMAIN log :
              (log[j][1] = "destructor" /\ SweepNo(j) = SweepNo(i)) => i < j
         /\ \E j \in DOMAIN log :
              log[j] = <<"destructor", log[i][2]>> /\ SweepNo(j) = SweepNo(i)
    /\ log[i][1] = "destructor" =>
         /\ \A j \in DOMAIN log : log[j] = <<"dealloc", log[i][2]>> => i < j
         /\ \E j \in DOMAIN log : log[j] = <<"dealloc", log[i][2]>> /\ SweepNo(j) = SweepNo(i)

\* One sweep has finalised and destroyed two non-trivial objects.
C7_Witness ==
  \E i, j \in DOMAIN log :
    /\ i # j
    /\ log[i][1] = "finalise" /\ log[j][1] = "finalise"
    /\ SweepNo(i) = SweepNo(j)
    /\ \E k \in DOMAIN log : log[k][1] = "destructor"

\* The triviality an object had when the current gc started.
WasTrivial(p) ==
  /\ last.op = "gc"
  /\ p \in Objs
  /\ last.pre.obj[p].st = "live"
  /\ Descs[last.pre.obj[p].desc].trivial

\* C8 (finalisers see their siblings): within one sweep no trivial object is
\* deallocated before the last finaliser and the last destructor have run,
\* whichever ring is the primary one.
C8_TrivialsOutliveFinalisers ==
  \A i, j \in DOMAIN log :
    ( /\ log[i][1] \in {"finalise", "destructor"}
      /\ log[j][1] = "dealloc"
      /\ WasTrivial(log[j][2])
      /\ SweepNo(i) = SweepNo(j) ) => i < j

\* The gc of a region with a trivial iso (the non-trivial ring is the
\* secondary one) has finalised a non-trivial member and freed a trivial one.
C8_Witness ==
  /\ last.op = "gc"
  /\ WasTrivial(last.a)
  /\ \E i, j \in DOMAIN log :
       /\ log[i][1] = "finalise"
       /\ log[j][1] = "dealloc" /\ WasTrivial(log[j][2])
       /\ SweepNo(i) = 0 /\ SweepNo(j) = 0

\* C9 (quiescent idempotence): a gc that follows a gc of the same region with
\* nothing in between leaves the heap (members, rings, class tags, memory
\* counters) as the first gc left it, and calls no finaliser, destructor or
\* deallocation.
C9_GcIdempotent ==
  (pc = "idle" /\ last.op = "gc" /\ last.chain) =>
    /\ Snap = last.pre
    /\ \A i \in DOMAIN log :
         log[i][1] \notin {"finalise", "destructor", "dealloc", "release_internal"}

\* A second gc in a row has returned on a region that has lost a member and
\* kept another beside the iso.
C9_Witness ==
  /\ pc = "idle" /\ last.op = "gc" /\ last.chain
  /\ \E p \in Objs : obj[p].st = "dead"
  /\ Cardinality(Members(Mach, get_region(Mach, last.a))) >= 2

\* C10 (swap_root round trip): after swap_root(a, b); swap_root(b, a) the iso
\* is a again and each ring has the members it had; when a and b have the
\* same triviality the whole heap is as it was before the two calls.
C10_SwapRoundTrip ==
  (pc = "idle" /\ last.op = "swap_root" /\ last.pre2 # NoSnap) =>
    LET r == get_region(Mach, last.b)
        h == last.pre2
    IN /\ obj[last.b].cls = "ISO"
       /\ get_region(h, last.b) = r
       /\ IsoOf(Mach, r) = last.b
       /\ Range(PrimaryRing(Mach, r)) = Range(PrimaryRing(h, r))
       /\ Range(SecondaryRing(Mach, r)) = Range(SecondaryRing(h, r))
       /\ is_trivial(Mach, last.a) = is_trivial(Mach, last.b) => Snap = h

\* swap_root(a, b); swap_root(b, a) has run in a primary ring of three.
C10_Witness ==
  /\ pc = "idle" /\ last.op = "swap_root" /\ last.pre2 # NoSnap
  /\ is_trivial(Mach, last.a) = is_trivial(Mach, last.b)
  /\ Len(PrimaryRing(Mach, get_region(Mach, last.b))) = MaxObjs

\* C11 (swap_root postcondition): after swap_root(prev, next) next is the
\* ISO, its slot holds the metadata and it is the last node of the primary
\* ring; prev is an UNMARKED member; the region has the members and the
\* current_memory_used it had; when prev and next differ in triviality the
\* old secondary members form the primary ring, the old primary members
\* (prev among them) form the secondary ring, and last_not_root is prev.
C11_SwapRootPost ==
  (pc = "idle" /\ last.op = "swap_root") =>
    LET prev == last.a
        nxt == last.b
        h == last.pre
        r == get_region(h, prev)
    IN /\ obj[nxt].cls = "ISO"
       /\ get_region(Mach, nxt) = r
       /\ LastOf(PrimaryRing(Mach, r)) = nxt
       /\ obj[prev].cls = "UNMARKED"
       /\ prev \in Members(Mach, r)
       /\ Members(Mach, r) = Members(h, r)
       /\ reg[r].current_memory_used = h.reg[r].current_memory_used
       /\ is_trivial(Mach, prev) # is_trivial(Mach, nxt) =>
            /\ Range(PrimaryRing(Mach, r)) = Range(SecondaryRing(h, r))
            /\ Range(SecondaryRing(Mach, r)) = Range(PrimaryRing(h, r))
            /\ prev \in Range(SecondaryRing(Mach, r))
            /\ reg[r].last_not_root = prev

\* swap_root has moved the iso to the other ring of a region whose primary
\* ring held a member beside the iso.
C11_Witness ==
  /\ pc = "idle" /\ last.op = "swap_root"
  /\ is_trivial(Mach, last.a) # is_trivial(Mach, last.b)
  /\ Len(PrimaryRing(last.pre, get_region(last.pre, last.a))) = 2
  /\ Len(SecondaryRing(last.pre, get_region(last.pre, last.a))) = 1

\* C12 (merge postcondition): after merge(into, o) the receiver's two rings
\* hold exactly its former members and all members of the donor, the donor's
\* former iso among them with class UNMARKED; the receiver's iso is
\* unchanged; the receiver's current_memory_used is the sum of the two
\* counters; the donor's metadata is deallocated.
C12_MergePost ==
  (pc = "idle" /\ last.op = "merge") =>
    LET h == last.pre
        r == get_region(h, last.a)
        other == get_region(h, last.b)
    IN /\ Members(Mach, r) = Members(h, r) \cup Members(h, other)
       /\ Len(PrimaryRing(Mach, r)) + Len(SecondaryRing(Mach, r))
            = Cardinality(Members(h, r)) + Cardinality(Members(h, other))
       /\ obj[last.b].st = "live"
       /\ obj[last.b].cls = "UNMARKED"
       /\ last.b \in Members(Mach, r)
       /\ IsoOf(Mach, r) = last.a
       /\ obj[last.a] = h.obj[last.a]
       /\ reg[r].st = "live"
       /\ reg[r].current_memory_used =
            h.reg[r].current_memory_used + h.reg[other].current_memory_used
       /\ reg[other].st = "dead"

\* A donor with a member in each of its rings has been merged.
C12_Witness ==
  /\ pc = "idle" /\ last.op = "merge"
  /\ Len(PrimaryRing(last.pre, get_region(last.pre, last.b))) = 1
  /\ Len(SecondaryRing(last.pre, get_region(last.pre, last.b))) = 1

\* The regions of heap h whose iso a non-trivial object of the set S refers to.
RegsHeldBy(h, S) ==
  {c \in LiveRegs(h) :
     \E x \in S : \E y \in h.obj[x].fields :
       /\ ~is_trivial(h, x)
       /\ h.obj[y].cls = "ISO" /\ h.obj[y].next = c
       /\ x \notin Members(h, c)}

\* The regions of C and every region nested beneath them in heap h.
RECURSIVE Beneath(_, _, _)
Beneath(h, C, n) ==
  IF n = 0 THEN C
  ELSE Beneath(h, C \cup RegsHeldBy(h, UNION {Members(h, c) : c \in C}), n - 1)

\* The number of times the current gc has deallocated address p.
DeallocCount(p) == Cardinality({i \in DOMAIN log : log[i] = <<"dealloc", p>>})

\* C13 (unreachable subregions): when gc(R) returns, the regions it has
\* released are exactly those whose iso a swept non-trivial member of R
\* referred to and the regions nested beneath them; every object and the
\* metadata of a released region has been deallocated exactly once; collect
\* is empty; every other region but R, with its objects, is as it was.
C13_SubregionsReleased ==
  (pc = "idle" /\ last.op = "gc") =>
    LET h == last.pre
        R == get_region(h, last.a)
        swept == {x \in Members(h, R) : obj[x].st = "dead"}
        released == {c \in LiveRegs(h) : reg[c].st = "dead"}
    IN /\ released = Beneath(h, RegsHeldBy(h, swept), NestRegs)
       /\ R \notin released
       /\ \A c \in released :
            /\ DeallocCount(c) = 1
            /\ \A p \in Members(h, c) : obj[p].st = "dead" /\ DeallocCount(p) = 1
       /\ collect = <<>>
       /\ \A c \in LiveRegs(h) \ (released \cup {R}) :
            /\ reg[c] = h.reg[c]
            /\ \A p \in Members(h, c) : obj[p] = h.obj[p]

\* gc has released a subregion held by a swept member and the region nested
\* beneath it.
C13_Witness ==
  /\ pc = "idle" /\ last.op = "gc"
  /\ \E c1, c2 \in LiveRegs(last.pre) :
       /\ c1 # c2
       /\ reg[c1].st = "dead" /\ reg[c2].st = "dead"
       /\ Owns(last.pre, get_region(last.pre, last.a), c1)
       /\ Owns(last.pre, c1, c2)

\* The fields of x the mutator cleared right before the current gc.
Dropped(x) ==
  IF last.op = "gc" /\ last.pre2 # NoSnap
  THEN last.pre2.obj[x].fields \ last.pre.obj[x].fields
  ELSE {}

\* The current gc has freed every object region c had when the gc started.
ChildFreed(c) ==
  /\ reg[c].st = "dead"
  /\ \A p \in Members(last.pre, c) : obj[p].st = "dead"

\* C14 as stated (dropping the field): if the non-trivial iso of the parent
\* held the reference to the iso of a child region and that field is cleared
\* right before gc(parent), then the gc calls find_iso_fields, runs the
\* child's release_internal, and on return every object of the child is
\* freed.
C14_DropIsoField ==
  (pc = "idle" /\ last.op = "gc" /\ ~is_trivial(last.pre, last.a)) =>
    \A y \in Dropped(last.a) :
      LET c == last.pre.obj[y].next
      IN (last.pre.obj[y].cls = "ISO" /\ c # get_region(last.pre, last.a)) =>
           /\ \E i, j \in DOMAIN log :
                i < j /\ log[i][1] = "find_iso_fields" /\ log[j] = <<"release_internal", c>>
           /\ ChildFreed(c)

\* C14 (subregion collect, amended): if a non-trivial member of the parent
\* other than its iso holds the reference to the iso of a child region and
\* is unreachable from the parent's iso when gc(parent) is called, then the
\* gc calls find_iso_fields on that member, afterwards runs the child's
\* release_internal, and on return every object of the child is freed; a
\* child whose reference was a field of the parent's iso cleared right
\* before the gc is left as it was.
C14_DropHolder ==
  (pc = "idle" /\ last.op = "gc") =>
    LET h == last.pre
        R == get_region(h, last.a)
    IN /\ \A x \in Members(h, R) \ {last.a} :
            (~is_trivial(h, x) /\ x \notin Reachable(h, R, last.a)) =>
              \A y \in h.obj[x].fields :
                LET c == h.obj[y].next
                IN (h.obj[y].cls = "ISO" /\ c # R) =>
                     /\ \E i, j \in DOMAIN log :
                          /\ i < j
                          /\ log[i] = <<"find_iso_fields", x>>
                          /\ log[j] = <<"release_internal", c>>
                     /\ ChildFreed(c)
       /\ \A y \in Dropped(last.a) :
            LET c == h.obj[y].next
            IN (h.obj[y].cls = "ISO" /\ c # R) =>
                 /\ reg[c] = h.reg[c]
                 /\ \A p \in Members(h, c) : obj[p] = h.obj[p]

\* The iso's field that referred to the holder of a child region was cleared,
\* and the gc that followed has freed the holder and the child.
C14_Witness ==
  /\ pc = "idle" /\ last.op = "gc"
  /\ \E x \in Dropped(last.a) : \E y \in last.pre.obj[x].fields :
       /\ x \in Members(last.pre, get_region(last.pre, last.a))
       /\ ~is_trivial(last.pre, x)
       /\ last.pre.obj[y].cls = "ISO"
       /\ last.pre.obj[y].next # get_region(last.pre, last.a)
       /\ ChildFreed(last.pre.obj[y].next)

\* The number of entries e in the sequence q.
Count(q, e) == Cardinality({i \in DOMAIN q : q[i] = e})

\* What one call of release_internal does: the step of release, or one turn
\* of the loop that drains collect.
ReleaseStep ==
  LET fromGc == pc = "collect" /\ pc' = "collect" /\ collect # <<>>
      fromRelease == pc = "idle" /\ pc' = "collect"
  IN (fromGc \/ fromRelease) =>
       LET o == IF fromGc THEN collect[Len(collect)] ELSE last'.a
           r == get_region(Mach, o)
           base == IF fromGc THEN log ELSE <<>>
           rest == IF fromGc THEN SubSeq(collect, 1, Len(collect) - 1) ELSE <<>>
           new == SubSeq(log', Len(base) + 1, Len(log'))
           pushed == SubSeq(collect', Len(rest) + 1, Len(collect'))
           mem == Members(Mach, r)
           held == {y \in Objs \ mem :
                      \E x \in mem : /\ ~is_trivial(Mach, x)
                                     /\ y \in obj[x].fields
                                     /\ obj[y].cls = "ISO"}
       IN /\ Len(log') >= Len(base) + 3
          /\ SubSeq(log', 1, Len(base)) = base
          /\ new[1] = <<"release_internal", r>>
          /\ o \in mem
          /\ \A p \in mem :
               /\ obj'[p].st = "dead"
               /\ Count(new, <<"dealloc", p>>) = 1
               /\ ~is_trivial(Mach, p) =>
                    /\ Count(new, <<"finalise", p>>) = 1
                    /\ Count(new, <<"destructor", p>>) = 1
                    /\ \E i, j, k \in DOMAIN new :
                         /\ i < j /\ j < k
                         /\ new[i] = <<"finalise", p>>
                         /\ new[j] = <<"destructor", p>>
                         /\ new[k] = <<"dealloc", p>>
               /\ is_trivial(Mach, p) =>
                    /\ Count(new, <<"finalise", p>>) = 0
                    /\ Count(new, <<"destructor", p>>) = 0
          /\ new[Len(new) - 1] = <<"sweep_set", r, 0>>
          /\ new[Len(new)] = <<"dealloc", r>>
          /\ Count(new, <<"dealloc", r>>) = 1
          /\ reg'[r].st = "dead"
          /\ Len(collect') >= Len(rest)
          /\ SubSeq(collect', 1, Len(rest)) = rest
          /\ Range(pushed) = held
          /\ Len(pushed) = Cardinality(held)
          /\ \A c \in LiveRegs(Mach) \ {r} :
               /\ reg'[c] = reg[c]
               /\ \A p \in Members(Mach, c) : obj'[p] = obj[p]

\* C15 (release postcondition): release_internal(iso) deallocates every
\* object of both rings, the iso included, after the finaliser and then the
\* destructor of each non-trivial one and neither for a trivial one; then
\* calls sweep_set with a marked count of 0; then deallocates the metadata;
\* the isos of other regions that the released non-trivial objects refer to
\* are pushed on collect, and their regions are left as they were.
C15_ReleasePost == [][ReleaseStep]_vars

\* release has freed a region that had members in both rings and held the
\* iso of a subregion, which waits on collect.
C15_Witness ==
  /\ pc = "collect" /\ last.op = "release"
  /\ Len(PrimaryRing(last.pre, get_region(last.pre, last.a))) >= 1
  /\ Len(SecondaryRing(last.pre, get_region(last.pre, last.a))) >= 1
  /\ \E y \in Range(collect) : obj[y].st = "live" /\ obj[y].cls = "ISO"
  /\ \E i \in DOMAIN log : log[i][1] = "finalise"

\* C16 (phase ordering inside one gc call): when mark has returned no member
\* has been unlinked, finalised or deallocated; within a sweep find_iso_fields
\* has been called on every pending object before any destructor runs;
\* every finaliser, destructor and deallocation of a region's objects, of
\* both rings, comes before the region's sweep_set; release_internal of a
\* collected subregion starts after the parent's sweep_set and the update of
\* its previous_memory_used.
C16_PhaseOrdering ==
  last.op = "gc" =>
    LET h == last.pre
        R == get_region(h, last.a)
    IN /\ pc = "sweep" =>
            /\ log = <<>>
            /\ PrimaryRing(Mach, R) = PrimaryRing(h, R)
            /\ SecondaryRing(Mach, R) = SecondaryRing(h, R)
            /\ \A p \in Members(h, R) : obj[p].st = "live"
       /\ \A i, j \in DOMAIN log :
            ( /\ log[i][1] = "find_iso_fields"
              /\ log[j][1] = "destructor"
              /\ SweepNo(i) = SweepNo(j) ) => i < j
       /\ \A j \in DOMAIN log :
            log[j][1] = "destructor" =>
              \E i \in 1..(j - 1) :
                log[i] = <<"find_iso_fields", log[j][2]>> /\ SweepNo(i) = SweepNo(j)
       /\ \A i, j \in DOMAIN log :
            ( /\ log[i][1] = "sweep_set"
              /\ log[j][1] \in {"finalise", "find_iso_fields", "destructor", "dealloc"}
              /\ log[j][2] \in Members(h, log[i][2]) ) => j < i
       /\ pc \in {"collect", "idle"} =>
            /\ Count(log, <<"sweep_set", R, 0>>) = 1
            /\ reg[R].previous_memory_used = size_to_sizeclass(reg[R].current_memory_used)
       /\ \A j \in DOMAIN log :
            log[j][1] = "release_internal" =>
              /\ pc \in {"collect", "idle"}
              /\ \E i \in 1..(j - 1) : log[i] = <<"sweep_set", R, 0>>

\* One gc has destroyed two pending objects of the region and has released a
\* subregion.
C16_Witness ==
  /\ pc = "idle" /\ last.op = "gc"
  /\ \E i, j \in DOMAIN log :
       /\ i # j
       /\ log[i][1] = "destructor" /\ log[j][1] = "destructor"
       /\ SweepNo(i) = 0 /\ SweepNo(j) = 0
  /\ \E i \in DOMAIN log : log[i][1] = "release_internal"

\* C17 (merge is constant-work): merge(into, o) changes the next slot or the
\* class tag of no object but the donor's former iso o and the donor's
\* last_not_root; of the metadata it changes the receiver's anchors and
\* counters and frees the donor's; every other object and region is as it
\* was.
C17_MergeFrame ==
  (pc = "idle" /\ last.op = "merge") =>
    LET h == last.pre
        r == get_region(h, last.a)
        other == get_region(h, last.b)
        written == {p \in Objs : obj[p].next # h.obj[p].next \/ obj[p].cls # h.obj[p].cls}
    IN /\ written \subseteq {last.b, h.reg[other].last_not_root}
       /\ \A p \in Objs \ {last.b, h.reg[other].last_not_root} : obj[p] = h.obj[p]
       /\ \A p \in Objs : /\ obj[p].fields = h.obj[p].fields
                          /\ obj[p].desc = h.obj[p].desc
                          /\ obj[p].st = h.obj[p].st
       /\ \A c \in Regs \ {r, other} : reg[c] = h.reg[c]

\* A donor whose primary ring holds a member beside its iso has been merged:
\* the member still points to the former iso.
C17_Witness ==
  /\ pc = "idle" /\ last.op = "merge"
  /\ Len(PrimaryRing(last.pre, get_region(last.pre, last.b))) = 2
  /\ \E p \in Objs : p # last.b /\ obj[p].next = last.b

\* C18 (iteration coverage): in every state and for every region, the loop
\* from begin() to end() in all-objects mode visits the primary ring in ring
\* order, the iso last, then the secondary ring in ring order, every member
\* once and nothing else; trivial-only mode visits exactly the trivial
\* members and non-trivial-only mode exactly the non-trivial ones, whichever
\* ring is primary and whatever the MARKED and UNMARKED tags.
C18_IterationCoverage ==
  \A r \in LiveRegs(Mach) :
    LET all == Iterate(Mach, r, "AllObjects")
        triv == Iterate(Mach, r, "Trivial")
        nontriv == Iterate(Mach, r, "NonTrivial")
        n == Len(PrimaryRing(Mach, r))
    IN /\ all = PrimaryRing(Mach, r) \o SecondaryRing(Mach, r)
       /\ n >= 1 /\ obj[all[n]].cls = "ISO" /\ obj[all[n]].next = r
       /\ NoRepeat(all) /\ NoRepeat(triv) /\ NoRepeat(nontriv)
       /\ Range(all) \subseteq LiveObjs(Mach)
       /\ Range(triv) = {p \in Members(Mach, r) : is_trivial(Mach, p)}
       /\ Range(nontriv) = {p \in Members(Mach, r) : ~is_trivial(Mach, p)}

\* Between mark and sweep a region has a MARKED member and members in both
\* rings, two of them in the primary ring.
C18_Witness ==
  /\ pc = "sweep"
  /\ Len(PrimaryRing(Mach, gcreg)) = 2
  /\ Len(SecondaryRing(Mach, gcreg)) = 1
  /\ \E p \in Members(Mach, gcreg) : obj[p].cls = "MARKED"

\* C19 (previous_memory_used after merge): merge(into, o) sets the
\* receiver's previous_memory_used to the size class of the sum of the
\* decoded previous_memory_used of the receiver, as it was before the merge,
\* and of the donor.
C19_MergePreviousMemory ==
  (pc = "idle" /\ last.op = "merge") =>
    LET h == last.pre
        r == get_region(h, last.a)
        other == get_region(h, last.b)
    IN reg[r].previous_memory_used =
         size_to_sizeclass(sizeclass_to_size(h.reg[r].previous_memory_used)
                           + sizeclass_to_size(h.reg[other].previous_memory_used))

\* Every live region's counter is the sum of the sizes of its members.
MemoryCounterOK ==
  \A r \in LiveRegs(Mach) :
    reg[r].current_memory_used = SumSizes(Mach, Members(Mach, r))

\* C20 (memory counter): between operations the current_memory_used of every
\* region is the sum of the descriptor sizes of the objects in its two rings,
\* the iso included; create starts it at the iso's size, alloc adds the new
\* object's size, swap_root leaves it unchanged, merge adds the donor's
\* counter, and gc's sweep recomputes it from the survivors.
C20_MemoryCounter ==
  LET h == last.pre IN
  /\ pc = "idle" => MemoryCounterOK
  /\ last.op = "create" =>
       reg[get_region(Mach, last.a)].current_memory_used = size(Mach, last.a)
  /\ last.op = "alloc" =>
       LET r == get_region(h, last.a)
       IN /\ reg[r].current_memory_used =
               h.reg[r].current_memory_used + size(Mach, last.b)
          /\ last.b \in Members(Mach, r) \ Members(h, r)
  /\ (last.op \in {"create", "alloc"}) =>
       \A c \in LiveRegs(h) \ {get_region(Mach, last.a)} :
         reg[c].current_memory_used = h.reg[c].current_memory_used
  /\ last.op = "swap_root" =>
       \A c \in Regs : reg[c].current_memory_used = h.reg[c].current_memory_used
  /\ last.op = "merge" =>
       LET r == get_region(h, last.a)
           other == get_region(h, last.b)
       IN reg[r].current_memory_used =
            h.reg[r].current_memory_used + h.reg[other].current_memory_used
  /\ (last.op = "gc" /\ pc \in {"collect", "idle"}) =>
       LET r == get_region(h, last.a)
       IN reg[r].current_memory_used =
            SumSizes(Mach, {p \in Members(h, r) : obj[p].st = "live"})

\* A gc has freed a member of a region that keeps members of both sizes.
C20_Witness ==
  /\ pc = "idle" /\ last.op = "gc"
  /\ \E p \in Objs : obj[p].st = "dead"
  /\ \E r \in LiveRegs(Mach) : reg[r].current_memory_used = 32

(***************************************************************************)
(* C21: gc terminates.  Under SpecSteps, where gc runs one loop turn at a  *)
(* time and the thread that called it keeps taking turns, every gc that    *)
(* was entered returns: mark's worklist empties, each ring walk is back at *)
(* the metadata and the collect worklist empties, whatever object graph    *)
(* and nesting of subregions the mutator has built.                        *)
(***************************************************************************)
C21_GcTerminates == (pc # "idle") ~> (pc = "idle")

\* gc has returned after its loop over collect released two subregions, the
\* second found while the first was released or while the region was swept.
C21_Witness ==
  /\ pc = "idle"
  /\ Len(SelectSeq(log, LAMBDA e : e[1] = "release_internal")) = 2
  /\ Cardinality({r \in Regs : reg[r].st = "dead"}) = 2

====
